---- MODULE Spec2Model ----
(***************************************************************************)
(* Model of storyboard/migrate/launchpad/writer.py: the LaunchpadWriter    *)
(* that copies Launchpad bugs into the StoryBoard store.  The store tables *)
(* are sequences of rows (row k has the auto-increment id k, except Story  *)
(* rows, whose id is the Launchpad id).  Strings the code inspects         *)
(* character by character (self_link, title, description) are sequences   *)
(* of character codes.                                                     *)
(***************************************************************************)
EXTENDS Integers, Sequences, FiniteSets, TLC

(* ------------------------------ bounds -------------------------------- *)
\* longest list of messages a bug carries
MaxMsgs == 2
\* number of importer runs (processes) over the same store
MaxRuns == 2
\* number of write_bug calls over all runs
MaxCalls == 2
\* length of the longest bug title
MaxTitleLen == 101

(* ------------------------- program constants -------------------------- *)
\* Python's None; also "no row" for a query's .first()
None == 0
\* len(title) > 100
TitleMax == 100
\* title[:97]
TitleKeep == 97

STORY_CREATED == "story_created"
TASK_CREATED == "task_created"
USER_COMMENT == "user_comment"

(* ------------------------------ strings ------------------------------- *)
NL == 10
DOT == 46
SLASH == 47
Digits == 48..57

RECURSIVE ParseInt(_)
\* int(s) for a string of decimal digits
ParseInt(s) ==
    IF Len(s) = 0 THEN 0
    ELSE 10 * ParseInt(SubSeq(s, 1, Len(s) - 1)) + (s[Len(s)] - 48)

RECURSIVE DigitRun(_)
\* the longest suffix of s made of digits
DigitRun(s) ==
    IF Len(s) = 0 \/ s[Len(s)] \notin Digits THEN <<>>
    ELSE DigitRun(SubSeq(s, 1, Len(s) - 1)) \o <<s[Len(s)]>>

\* re.search("([0-9]+)$", s).groups()[0], or <<>> when there is no match.
\* Without re.MULTILINE, "$" matches at the end of the string and also just
\* before a newline that is the last character of the string.
url_match(s) ==
    IF Len(s) > 0 /\ s[Len(s)] = NL
    THEN DigitRun(SubSeq(s, 1, Len(s) - 1))
    ELSE DigitRun(s)

\* date.strftime('%Y-%m-%d %H:%M:%S'): the date to the second, as text
strftime(d) == <<"%Y-%m-%d %H:%M:%S", d>>

\* the title and description stored for a bug (writer.py 176-181)
NormTitle_off(t) ==
    IF Len(t) > TitleMax THEN SubSeq(t, 1, TitleKeep + 1) \o <<DOT, DOT, DOT>>
    ELSE t
NormTitle(t) ==
    IF Len(t) > TitleMax THEN SubSeq(t, 1, TitleKeep) \o <<DOT, DOT, DOT>>
    ELSE t
NormDescription(t, d) ==
    IF Len(t) > TitleMax THEN t \o <<NL, NL>> \o d
    ELSE d

(* ------------------------------- inputs ------------------------------- *)
\* Launchpad users: name, display_name, web_link
Amy == [name |-> "amy", display_name |-> "Amy", web_link |-> "lp/~amy"]
Bob == [name |-> "bob", display_name |-> "Bob", web_link |-> "lp/~bob"]
\* a second profile link of the user named amy
Amy2 == [name |-> "amy", display_name |-> "Amy", web_link |-> "lp/+amy"]
\* lp_user None
NoneUser == [name |-> "", display_name |-> "", web_link |-> ""]
LPUsers == {Amy, Bob, Amy2, NoneUser}
\* the owner of the bugs
BugOwners == {Amy}

\* what identity discovery answers for a profile link when it succeeds
LocalID(link) == "id/" \o link
DiscoveryFailure == "DiscoveryFailure"
\* openid_consumer.begin(link).endpoint.getLocalID(): the local id, or the
\* exception when the identity service cannot be reached (ok = FALSE)
Discovery(link, ok) == IF ok THEN LocalID(link) ELSE DiscoveryFailure

TagNames == {"bug", "ui", "low"}

\* a title of n characters, no two neighbouring windows alike
Title(n) == [k \in 1..n |-> 97 + ((k * k) % 7)]
Description == <<100, 101, 115, 99>>

\* message k of a bug: owner and content
Message(key, k) ==
    [owner |-> IF k % 2 = 1 THEN Amy ELSE Bob, content |-> <<key, k>>,
     date_created |-> 2014 + k]
Messages(key, n) == [k \in 1..n |-> Message(key, k)]

MkBug(link, key, tlen, n) ==
    [self_link |-> link, title |-> Title(tlen), description |-> Description,
     date_created |-> 2014, date_last_updated |-> 2014,
     messages |-> Messages(key, n)]

Link7 == <<98, SLASH, 55>>
Link12 == <<98, SLASH, 49, 50>>
Link7NL == <<98, SLASH, 55, NL>>
LinkX == <<98, SLASH, 55, 120>>

\* the bugs the Launchpad client may hand to the writer
Bugs ==
    {MkBug(Link7, "b7", TitleMax, n) : n \in 0..MaxMsgs}
    \cup {MkBug(Link7, "b7", MaxTitleLen, 1)}
    \cup {MkBug(Link12, "b12", 1, 1)}
    \cup {MkBug(Link7NL, "b7", TitleMax, 1)}
    \cup {MkBug(LinkX, "bx", 1, 1)}

\* the description of bug 7 after an edit on Launchpad
Description2 == <<101, 100, 105, 116>>
\* Bug 7 as Launchpad reports it at three times, and what the importer
\* script passes with it: the Launchpad importance and status mapped to
\* priority and status, and whether the bug carries tags
Reimports ==
    {[bug |-> [self_link |-> Link7, title |-> Title(TitleMax),
               description |-> Description, date_created |-> 2014,
               date_last_updated |-> 2014, messages |-> Messages("b7", 1)],
      priority |-> "Medium", status |-> "todo", tagged |-> FALSE],
     [bug |-> [self_link |-> Link7, title |-> Title(MaxTitleLen),
               description |-> Description2, date_created |-> 2013,
               date_last_updated |-> 2015, messages |-> Messages("b7", 1)],
      priority |-> "High", status |-> "inprogress", tagged |-> TRUE],
     [bug |-> [self_link |-> Link7, title |-> Title(TitleKeep),
               description |-> Description, date_created |-> 2014,
               date_last_updated |-> 2016, messages |-> Messages("b7", 0)],
      priority |-> "Low", status |-> "merged", tagged |-> TRUE]}

\* a third Launchpad user, who only writes messages
Carl == [name |-> "carl", display_name |-> "Carl", web_link |-> "lp/~carl"]

\* https://api.launchpad.net/1.0/bugs/1057477 (writer.py 163), shortened
Link1057477 == <<98, SLASH, 49, 48, 53, 55, 52, 55, 55>>
\* the bug of the end-to-end scenario: a title of 120 characters and three
\* messages, whose owners are any of three users
ScenarioBugs ==
    {[self_link |-> Link1057477, title |-> Title(120),
      description |-> Description, date_created |-> 2014,
      date_last_updated |-> 2015, tags |-> <<"bug", "ui">>,
      messages |-> [k \in 1..3 |-> [owner |-> o[k],
                                    content |-> <<"b1057477", k>>,
                                    date_created |-> 2014 + k]]]
     : o \in [1..3 -> {Amy, Bob, Carl}]}
\* the users the scenario's bug may have as owner and as assignee
ScenarioUsers == {Amy, Bob, Amy2}

(* ------------------------------- state -------------------------------- *)
VARIABLES
    \* the persistent store
    project,      \* the Project the writer was constructed for
    stories, tasks, events, comments, tags, users,
    \* the LaunchpadWriter instance of the current run
    _openid_map, _user_map, _tag_map,
    \* the write_bug call in progress: position and local variables
    pc, frame,
    \* bookkeeping: runs and calls so far, the last top-level call and what
    \* it returned, the calls made for each Launchpad id
    runs, calls, last, hist,
    \* bookkeeping of the current run: tag_create calls per name, the Tag
    \* first returned per name, discovery attempts per profile link
    tag_made, tag_seen, discovered,
    \* outside the writer: the importer script's position and locals, and
    \* the API layer's event being resolved
    caller, api

store == <<project, stories, tasks, events, comments, tags, users>>
caches == <<_openid_map, _user_map, _tag_map>>
tally == <<tag_made, tag_seen, discovered>>
outside == <<caller, api>>
vars == <<project, stories, tasks, events, comments, tags, users,
          _openid_map, _user_map, _tag_map, pc, frame, runs, calls, last,
          hist, tag_made, tag_seen, discovered, caller, api>>

(* --------------------------- store queries ---------------------------- *)
Range(f) == {f[k] : k \in DOMAIN f}
\* SELECT ... .first(): the id of the first row that matches, or None
First(table, Match(_)) ==
    LET hits == {k \in 1..Len(table) : Match(table[k])}
    IN  IF hits = {} THEN None
        ELSE CHOOSE k \in hits : \A j \in hits : k <= j
Count(table, Match(_)) ==
    Cardinality({k \in 1..Len(table) : Match(table[k])})

\* db_api.entity_get(Story, launchpad_id)
duplicate_none(id) == FALSE
duplicate(id) == \E k \in 1..Len(stories) : stories[k].id = id

\* db_api.entity_update(Story, launchpad_id, story)
entity_update(table, id, values) ==
    [k \in 1..Len(table) |-> IF table[k].id = id THEN values ELSE table[k]]

\* model_query(Task).filter(Task.story_id == launchpad_id).first()
existing_task_none(id) == None
existing_task_nofilter(id) == First(tasks, LAMBDA r : TRUE)
existing_task(id) == First(tasks, LAMBDA r : r.story_id = id)

\* model_query(TimeLineEvent).filter(story_id).filter(event_type).first()
event_first(id, type) ==
    First(events, LAMBDA r : r.story_id = id /\ r.event_type = type)

\* model_query(TimeLineEvent).filter(story_id).filter(USER_COMMENT).count()
current_count_less(id) ==
    LET n == Count(events,
                   LAMBDA r : r.story_id = id /\ r.event_type = USER_COMMENT)
    IN  IF n > 0 THEN n - 1 ELSE 0
current_count(id) ==
    Count(events, LAMBDA r : r.story_id = id /\ r.event_type = USER_COMMENT)

\* tags_api.tag_get_by_name(tag_name)
tag_get_by_name_none(table, name) == None
tag_get_by_name(table, name) == First(table, LAMBDA r : r.name = name)

\* users_api.user_get_by_openid(openid)
user_get_by_openid_none(table, openid) == None
user_get_by_openid(table, openid) == First(table, LAMBDA r : r.openid = openid)

\* 'http://example.com/invalid/~%s' % (username,)
invalid_openid_link(lp_user) ==
    "http://example.com/invalid/~" \o lp_user.web_link
invalid_openid(lp_user) == "http://example.com/invalid/~" \o lp_user.name

(* ----------------------------- write_user ----------------------------- *)
\* lp_user is None
is_none_never(lp_user) == FALSE
is_none(lp_user) == lp_user = [name |-> "", display_name |-> "", web_link |-> ""]

\* user_link in self._openid_map
openid_cached_never(omap, user_link) == FALSE
openid_cached(omap, user_link) == user_link \in DOMAIN omap

\* d[k] = v added to the dict d; d[k] += 1 with a missing k counting 0
Put(d, k, v) == (k :> v) @@ d
Bump(d, k) == IF k \in DOMAIN d THEN [d EXCEPT ![k] = @ + 1] ELSE Put(d, k, 1)

\* write_user(lp_user) on the users table, _openid_map and _user_map given
\* in st, when identity discovery (if it is attempted) answers outcome.
\* The result carries the new table and maps, the value returned (ret) and
\* what the call did.
write_user(st, lp_user, outcome) ==
    IF is_none(lp_user)
    THEN [users |-> st.users, omap |-> st.omap, umap |-> st.umap,
          ret |-> None, discovery |-> "none", openid |-> "",
          looked |-> FALSE, created |-> FALSE]
    ELSE
    LET username == lp_user.name
        display_name == lp_user.display_name
        user_link == lp_user.web_link
        resolve == ~openid_cached(st.omap, user_link)
        omap2 == IF ~resolve THEN st.omap
                 ELSE IF outcome = DiscoveryFailure
                      THEN Put(st.omap, user_link, invalid_openid(lp_user))
                      ELSE Put(st.omap, user_link, outcome)
        openid == omap2[user_link]
        miss == openid \notin DOMAIN st.umap
        user == user_get_by_openid(st.users, openid)
        create == miss /\ user = None
        users2 == IF create
                  THEN Append(st.users,
                              [id |-> Len(st.users) + 1,
                               username |-> username,
                               openid |-> openid,
                               full_name |-> display_name,
                               email |-> username \o "@example.com"])
                  ELSE st.users
        umap2 == IF miss
                 THEN Put(st.umap, openid,
                          IF create THEN Len(st.users) + 1 ELSE user)
                 ELSE st.umap
    IN  [users |-> users2, omap |-> omap2, umap |-> umap2,
         ret |-> umap2[openid],
         discovery |-> IF ~resolve THEN "none"
                       ELSE IF outcome = DiscoveryFailure THEN "fail"
                       ELSE "ok",
         openid |-> openid, looked |-> miss, created |-> create]

UserState == [users |-> users, omap |-> _openid_map, umap |-> _user_map]

\* the effect of one write_user call on the state
DoWriteUser(r, lp_user) ==
    /\ users' = r.users
    /\ _openid_map' = r.omap
    /\ _user_map' = r.umap
    /\ discovered' = IF r.discovery = "none" THEN discovered
                     ELSE Bump(discovered, lp_user.web_link)

(* ------------------------ build_tag, write_tags ----------------------- *)
\* build_tag(tag_name) on the tags table and _tag_map given in st.  The
\* result carries the new table and map, the Tag returned (ret) and, in
\* trace, what the call did: whether the name had been resolved before in
\* this run (again), whether the store was queried (looked) and whether
\* tag_create was called (created).
build_tag_nocache(st, tag_name) ==
    LET tag == tag_get_by_name(st.tags, tag_name)
        create == tag = None
        id == IF create THEN Len(st.tags) + 1 ELSE tag
    IN  [tags |-> IF create
                  THEN Append(st.tags, [id |-> id, name |-> tag_name])
                  ELSE st.tags,
         map |-> st.map,
         made |-> IF create THEN Bump(st.made, tag_name) ELSE st.made,
         seen |-> IF tag_name \in DOMAIN st.seen THEN st.seen
                  ELSE Put(st.seen, tag_name, id),
         ret |-> id,
         trace |-> <<[name |-> tag_name, ret |-> id,
                      again |-> tag_name \in DOMAIN st.seen,
                      looked |-> TRUE, created |-> create]>>]
build_tag(st, tag_name) ==
    LET hit == tag_name \in DOMAIN st.map
        tag == IF hit THEN None ELSE tag_get_by_name(st.tags, tag_name)
        create == ~hit /\ tag = None
        tags2 == IF create
                 THEN Append(st.tags, [id |-> Len(st.tags) + 1,
                                       name |-> tag_name])
                 ELSE st.tags
        map2 == IF hit THEN st.map
                ELSE Put(st.map, tag_name,
                         IF create THEN Len(st.tags) + 1 ELSE tag)
    IN  [tags |-> tags2, map |-> map2,
         made |-> IF create THEN Bump(st.made, tag_name) ELSE st.made,
         seen |-> IF tag_name \in DOMAIN st.seen THEN st.seen
                  ELSE Put(st.seen, tag_name, map2[tag_name]),
         ret |-> map2[tag_name],
         trace |-> <<[name |-> tag_name, ret |-> map2[tag_name],
                      again |-> tag_name \in DOMAIN st.seen,
                      looked |-> ~hit, created |-> create]>>]

RECURSIVE write_tags(_, _)
\* write_tags(bug) for bug.tags = names (<<>> when the bug has no tags):
\* build_tag for each name in turn; ret is the list of the Tags returned
write_tags(st, names) ==
    IF Len(names) = 0
    THEN [tags |-> st.tags, map |-> st.map, made |-> st.made,
          seen |-> st.seen, ret |-> <<>>, trace |-> <<>>]
    ELSE LET r == write_tags(st, SubSeq(names, 1, Len(names) - 1))
             b == build_tag(r, names[Len(names)])
         IN  [b EXCEPT !.ret = Append(r.ret, b.ret),
                       !.trace = r.trace \o b.trace]

TagState == [tags |-> tags, map |-> _tag_map, made |-> tag_made,
             seen |-> tag_seen]

DoTags(r) ==
    /\ tags' = r.tags
    /\ _tag_map' = r.map
    /\ tag_made' = r.made
    /\ tag_seen' = r.seen

(* ------------------------------ write_bug ----------------------------- *)
Ids ==
    {ParseInt(url_match(b.self_link)) :
        b \in Bugs \cup ScenarioBugs \cup {i.bug : i \in Reimports}} \ {0}
NoFrame == [bug |-> None]
NoCall == [op |-> "none"]
NoBug == [self_link |-> None]


\* a call of write_bug for Launchpad id `id' begins / returns / is cut short
HistCall(id, bug) ==
    [hist EXCEPT ![id] =
        [@ EXCEPT !.first = IF @ = NoBug THEN bug ELSE @,
                  !.same = hist[id].first \in {NoBug, bug} /\ @]]
HistDone(id) ==
    [hist EXCEPT ![id] = [@ EXCEPT !.done = IF @ < 2 THEN @ + 1 ELSE @]]
HistKilled(id) == [hist EXCEPT ![id] = [@ EXCEPT !.killed = TRUE]]

\* `return story' (writer.py 280): the call is over
Return(f) ==
    /\ pc' = "idle"
    /\ frame' = NoFrame
    /\ last' = [op |-> "write_bug", bug |-> f.bug, ret |-> f.launchpad_id,
                owner |-> f.owner, assignee |-> f.assignee,
                priority |-> f.priority, status |-> f.status,
                tags |-> f.tags, task |-> f.task, M0 |-> f.M0, st0 |-> f.st0, tk0 |-> f.tk0,
                ev0 |-> f.ev0, cm0 |-> f.cm0]
    /\ hist' = HistDone(f.launchpad_id)

\* writer.py 152-198: extract the Launchpad id, normalise the title, create
\* or update the Story
WriteBugStory(owner, assignee, priority, status, tgs, bug) ==
    /\ pc = "idle"
    /\ calls < MaxCalls
    /\ calls' = calls + 1
    /\ UNCHANGED outside
    /\ LET created_at == strftime(bug.date_created)
           updated_at == strftime(bug.date_last_updated)
           m == url_match(bug.self_link)
       IN  IF m = <<>>
           THEN \* ERROR: Unable to extract launchpad ID
                /\ last' = [op |-> "write_bug", bug |-> bug, ret |-> None,
                            st0 |-> stories, tk0 |-> tasks, ev0 |-> events,
                            cm0 |-> comments]
                /\ UNCHANGED <<store, caches, tally, pc, frame, runs, hist>>
           ELSE LET launchpad_id == ParseInt(m)
                    title == NormTitle(bug.title)
                    description == NormDescription(bug.title, bug.description)
                    story == [id |-> launchpad_id,
                              description |-> description,
                              created_at |-> created_at,
                              creator |-> owner,
                              is_bug |-> TRUE,
                              title |-> title,
                              updated_at |-> updated_at,
                              tags |-> tgs]
                IN  /\ stories' = IF ~duplicate(launchpad_id)
                                  THEN Append(stories, story)
                                  ELSE entity_update(stories, launchpad_id,
                                                     story)
                    /\ frame' = [owner |-> owner, assignee |-> assignee,
                                 priority |-> priority, status |-> status,
                                 tags |-> tgs, bug |-> bug,
                                 created_at |-> created_at,
                                 updated_at |-> updated_at,
                                 launchpad_id |-> launchpad_id,
                                 title |-> title,
                                 description |-> description,
                                 task |-> None, i |-> 0,
                                 message_owner |-> None, comment |-> None,
                                 M0 |-> Count(events,
                                     LAMBDA r : r.story_id = launchpad_id
                                             /\ r.event_type = USER_COMMENT),
                                 st0 |-> stories, tk0 |-> tasks,
                                 ev0 |-> events, cm0 |-> comments]
                    /\ pc' = "task"
                    /\ last' = NoCall
                    /\ hist' = HistCall(launchpad_id, bug)
                    /\ UNCHANGED <<project, tasks, events, comments, tags,
                                   users, caches, tally, runs>>

\* writer.py 204-219: one Task per story, created unless there is one
WriteBugTask ==
    /\ pc = "task"
    /\ LET id == frame.launchpad_id
           found == existing_task(id)
       IN  IF found = None
           THEN /\ tasks' = Append(tasks,
                        [id |-> Len(tasks) + 1,
                         title |-> frame.title,
                         assignee_id |-> frame.assignee,
                         project_id |-> project,
                         story_id |-> id,
                         created_at |-> frame.created_at,
                         updated_at |-> frame.updated_at,
                         priority |-> frame.priority,
                         status |-> frame.status])
                /\ frame' = [frame EXCEPT !.task = Len(tasks) + 1]
           ELSE /\ tasks' = tasks
                /\ frame' = [frame EXCEPT !.task = found]
    /\ pc' = "story_event"
    /\ UNCHANGED <<project, stories, events, comments, tags, users, caches,
                   tally, runs, calls, last, hist>>
    /\ UNCHANGED outside

\* writer.py 224-234: the STORY_CREATED event, unless there is one
WriteBugStoryEvent ==
    /\ pc = "story_event"
    /\ LET id == frame.launchpad_id
       IN  events' = IF event_first(id, STORY_CREATED) = None
                     THEN Append(events,
                              [id |-> Len(events) + 1,
                               story_id |-> id,
                               author_id |-> frame.owner,
                               event_type |-> STORY_CREATED,
                               created_at |-> frame.created_at])
                     ELSE events
    /\ pc' = "task_event"
    /\ UNCHANGED <<project, stories, tasks, comments, tags, users, caches,
                   tally, frame, runs, calls, last, hist>>
    /\ UNCHANGED outside

\* len(bug.messages)
desired_count_short(bug) ==
    IF Len(bug.messages) > 0 THEN Len(bug.messages) - 1 ELSE 0
desired_count(bug) == Len(bug.messages)

\* writer.py 238-260: the TASK_CREATED event, unless there is one; then the
\* number of USER_COMMENT events, where the loop over the messages starts
WriteBugTaskEvent ==
    /\ pc = "task_event"
    /\ LET id == frame.launchpad_id
           start == current_count(id)
           f == [frame EXCEPT !.i = start]
       IN  /\ events' = IF event_first(id, TASK_CREATED) = None
                         THEN Append(events,
                                  [id |-> Len(events) + 1,
                                   story_id |-> id,
                                   author_id |-> frame.owner,
                                   event_type |-> TASK_CREATED,
                                   created_at |-> frame.created_at,
                                   event_info |->
                                       [task_id |-> frame.task,
                                        task_title |-> frame.title]])
                         ELSE events
           /\ IF start < desired_count(frame.bug)
              THEN /\ pc' = "msg_user"
                   /\ frame' = f
                   /\ UNCHANGED <<last, hist>>
              ELSE Return(f)
    /\ UNCHANGED <<project, stories, tasks, comments, tags, users, caches,
                   tally, runs, calls>>
    /\ UNCHANGED outside

\* bug.messages[i]
message_at(bug, i) == bug.messages[i + 1]

\* writer.py 262-265: message_owner = self.write_user(message.owner)
WriteBugMsgUser(ok) ==
    /\ pc = "msg_user"
    /\ LET message == message_at(frame.bug, frame.i)
           r == write_user(UserState, message.owner,
                           Discovery(message.owner.web_link, ok))
       IN  /\ DoWriteUser(r, message.owner)
           /\ frame' = [frame EXCEPT !.message_owner = r.ret]
    /\ pc' = "msg_comment"
    /\ UNCHANGED <<project, stories, tasks, events, comments, tags,
                   _tag_map, tag_made, tag_seen, runs, calls, last, hist>>
    /\ UNCHANGED outside

\* writer.py 267-270: comments_api.comment_create
WriteBugMsgComment ==
    /\ pc = "msg_comment"
    /\ LET message == message_at(frame.bug, frame.i)
       IN  comments' = Append(comments,
                           [id |-> Len(comments) + 1,
                            content |-> message.content,
                            created_at |-> strftime(message.date_created)])
    /\ frame' = [frame EXCEPT !.comment = Len(comments) + 1]
    /\ pc' = "msg_event"
    /\ UNCHANGED <<project, stories, tasks, events, tags, users, caches,
                   tally, runs, calls, last, hist>>
    /\ UNCHANGED outside

\* writer.py 272-278: the USER_COMMENT event of the message; next message
WriteBugMsgEvent ==
    /\ pc = "msg_event"
    /\ LET message == message_at(frame.bug, frame.i)
           f == [frame EXCEPT !.i = @ + 1]
       IN  /\ events' = Append(events,
                             [id |-> Len(events) + 1,
                              story_id |-> frame.launchpad_id,
                              author_id |-> frame.message_owner,
                              event_type |-> USER_COMMENT,
                              comment_id |-> frame.comment,
                              created_at |->
                                  strftime(message.date_created)])
           /\ IF f.i < desired_count(frame.bug)
              THEN /\ pc' = "msg_user"
                   /\ frame' = f
                   /\ UNCHANGED <<last, hist>>
              ELSE Return(f)
    /\ UNCHANGED <<project, stories, tasks, comments, tags, users, caches,
                   tally, runs, calls>>
    /\ UNCHANGED outside

(* ------------------------------- runs --------------------------------- *)
\* the Project rows of the store; the importer never writes them
Projects == <<[id |-> 1, name |-> "storyboard"]>>
\* the project name the importer is normally started with
ProjectName == "storyboard"
\* projects_api.project_get_by_name(project_name)
project_get_by_name(project_name) ==
    First(Projects, LAMBDA r : r.name = project_name)

\* `if not self.project'
project_missing_never(p) == FALSE
project_missing(p) == p = None

\* The process ends, at the end of the caller's loop or cut short between
\* two store operations of write_bug (or it had exited), and the operator
\* starts the importer again: LaunchpadWriter.__init__(project_name)
\* (writer.py 35-51) makes the three empty maps and looks the project up;
\* when there is none it ends the process with sys.exit(1).
Construct(project_name) ==
    /\ runs < MaxRuns
    /\ runs' = runs + 1
    /\ _openid_map' = <<>>
    /\ _user_map' = <<>>
    /\ _tag_map' = <<>>
    /\ tag_made' = <<>>
    /\ tag_seen' = <<>>
    /\ discovered' = <<>>
    /\ project' = project_get_by_name(project_name)
    /\ frame' = NoFrame
    /\ IF project_missing(project')
       THEN /\ pc' = "exit"
            /\ last' = [op |-> "exit", status |-> 1,
                        store0 |-> <<stories, tasks, events, comments, tags,
                                     users>>]
       ELSE /\ pc' = "idle"
            /\ last' = [op |-> "init"]
    /\ hist' = IF pc \in {"idle", "exit"} THEN hist
               ELSE HistKilled(frame.launchpad_id)
    /\ UNCHANGED <<stories, tasks, events, comments, tags, users, calls>>
    /\ UNCHANGED outside

\* the importer started again for the project that exists
NewRun == Construct(ProjectName)

\* the caller resolves a Launchpad user (a bug's owner or assignee)
WriteUser(lp_user, ok) ==
    /\ pc = "idle"
    /\ LET r == write_user(UserState, lp_user,
                           Discovery(lp_user.web_link, ok))
       IN  /\ DoWriteUser(r, lp_user)
           /\ last' = [op |-> "write_user", lp_user |-> lp_user,
                       ret |-> r.ret, discovery |-> r.discovery,
                       openid |-> r.openid, looked |-> r.looked,
                       created |-> r.created, users0 |-> users]
    /\ UNCHANGED <<project, stories, tasks, events, comments, tags,
                   _tag_map, tag_made, tag_seen, pc, frame, runs, calls,
                   hist>>
    /\ UNCHANGED outside

NoCaller == [at |-> "none"]
NoRequest == [at |-> "none"]

Init ==
    /\ project = project_get_by_name(ProjectName)
    /\ caller = NoCaller
    /\ api = NoRequest
    /\ stories = <<>>
    /\ tasks = <<>>
    /\ events = <<>>
    /\ comments = <<>>
    /\ tags = <<>>
    /\ users = <<>>
    /\ _openid_map = <<>>
    /\ _user_map = <<>>
    /\ _tag_map = <<>>
    /\ pc = "idle"
    /\ frame = NoFrame
    /\ runs = 1
    /\ calls = 0
    /\ last = NoCall
    /\ hist = [id \in Ids |-> [first |-> NoBug, same |-> TRUE, done |-> 0,
                                killed |-> FALSE]]
    /\ tag_made = <<>>
    /\ tag_seen = <<>>
    /\ discovered = <<>>

\* build_tag(tag_name) called by the caller
BuildTag(tag_name) ==
    /\ pc = "idle"
    /\ LET r == build_tag(TagState, tag_name)
       IN  /\ DoTags(r)
           /\ last' = [op |-> "build_tag", names |-> <<tag_name>>,
                       ret |-> r.ret, trace |-> r.trace, tags0 |-> tags]
    /\ UNCHANGED <<project, stories, tasks, events, comments, users,
                   _openid_map, _user_map, discovered, pc, frame, runs,
                   calls, hist>>
    /\ UNCHANGED outside

\* bug.tags: absent or empty, or a list of tag names
TagLists ==
    {<<>>} \cup {<<a>> : a \in TagNames}
           \cup {<<a, b>> : a \in TagNames, b \in TagNames}

\* write_tags(bug) called by the caller, bug.tags = names
WriteTags(names) ==
    /\ pc = "idle"
    /\ LET r == write_tags(TagState, names)
       IN  /\ DoTags(r)
           /\ last' = [op |-> "write_tags", names |-> names, ret |-> r.ret,
                       trace |-> r.trace, tags0 |-> tags]
    /\ UNCHANGED <<project, stories, tasks, events, comments, users,
                   _openid_map, _user_map, discovered, pc, frame, runs,
                   calls, hist>>
    /\ UNCHANGED outside

\* The importer script handling one bug: owner = write_user(bug.owner),
\* assignee = write_user(bug.assignee), tags = write_tags(bug), then
\* write_bug(owner, assignee, priority, status, tags, bug)
ImportOwner(lp_user, ok) ==
    /\ pc = "idle"
    /\ caller = NoCaller
    /\ LET r == write_user(UserState, lp_user,
                           Discovery(lp_user.web_link, ok))
       IN  /\ DoWriteUser(r, lp_user)
           /\ caller' = [at |-> "assignee", U1 |-> lp_user, owner |-> r.ret]
    /\ UNCHANGED <<project, stories, tasks, events, comments, tags,
                   _tag_map, tag_made, tag_seen, pc, frame, runs, calls,
                   last, hist, api>>

ImportAssignee(lp_user, ok) ==
    /\ pc = "idle"
    /\ caller.at = "assignee"
    /\ LET r == write_user(UserState, lp_user,
                           Discovery(lp_user.web_link, ok))
       IN  /\ DoWriteUser(r, lp_user)
           /\ caller' = [at |-> "tags", U1 |-> caller.U1,
                         owner |-> caller.owner, U2 |-> lp_user,
                         assignee |-> r.ret]
    /\ UNCHANGED <<project, stories, tasks, events, comments, tags,
                   _tag_map, tag_made, tag_seen, pc, frame, runs, calls,
                   last, hist, api>>

ImportTags(names) ==
    /\ pc = "idle"
    /\ caller.at = "tags"
    /\ LET r == write_tags(TagState, names)
       IN  /\ DoTags(r)
           /\ caller' = [at |-> "bug", U1 |-> caller.U1,
                         owner |-> caller.owner, U2 |-> caller.U2,
                         assignee |-> caller.assignee, tags |-> r.ret]
    /\ UNCHANGED <<project, stories, tasks, events, comments, users,
                   _openid_map, _user_map, discovered, pc, frame, runs,
                   calls, last, hist, api>>

ImportBug(bug) ==
    /\ caller.at = "bug"
    /\ calls = 0
    /\ WriteBugStory(caller.owner, caller.assignee, "High", "inprogress",
                     Range(caller.tags), bug)

\* The end-to-end scenario: one bug imported into the empty store
NextScenario ==
    \/ \E u \in ScenarioUsers : \E ok \in BOOLEAN : ImportOwner(u, ok)
    \/ \E u \in ScenarioUsers : \E ok \in BOOLEAN : ImportAssignee(u, ok)
    \/ ImportTags(<<"bug", "ui">>)
    \/ \E b \in ScenarioBugs : ImportBug(b)
    \/ WriteBugTask
    \/ WriteBugStoryEvent
    \/ WriteBugTaskEvent
    \/ \E ok \in BOOLEAN : WriteBugMsgUser(ok)
    \/ WriteBugMsgComment
    \/ WriteBugMsgEvent

SpecScenario == Init /\ [][NextScenario]_vars

\* The importer writing bugs: the caller resolves the owner of the bugs
\* (its identity is discovered), bugs are written with an owner and an
\* assignee that write_user returned in this run, message owners are
\* resolved on the way (their discovery may fail), runs end and start.
Next ==
    \/ \E u \in BugOwners : WriteUser(u, TRUE)
    \/ \E owner \in Range(_user_map), b \in Bugs :
           \E assignee \in Range(_user_map) \cup {None} :
               WriteBugStory(owner, assignee, "Medium", "todo", {}, b)
    \/ WriteBugTask
    \/ WriteBugStoryEvent
    \/ WriteBugTaskEvent
    \/ \E ok \in BOOLEAN : WriteBugMsgUser(ok)
    \/ WriteBugMsgComment
    \/ WriteBugMsgEvent
    \/ NewRun

Spec == Init /\ [][Next]_vars

\* The importer script importing bug 7 again after edits on Launchpad:
\* the assignee is what the write_user call just before returned, the tags
\* are those resolved in this run
Reimport(owner, import) ==
    /\ last.op = "write_user"
    /\ WriteBugStory(owner, last.ret, import.priority, import.status,
                     IF import.tagged THEN Range(_tag_map) ELSE {},
                     import.bug)

NextReimport ==
    \/ \E u \in {Amy, NoneUser} : WriteUser(u, TRUE)
    \/ \E n \in {"bug"} : BuildTag(n)
    \/ \E owner \in Range(_user_map), import \in Reimports :
           Reimport(owner, import)
    \/ WriteBugTask
    \/ WriteBugStoryEvent
    \/ WriteBugTaskEvent
    \/ \E ok \in BOOLEAN : WriteBugMsgUser(ok)
    \/ WriteBugMsgComment
    \/ WriteBugMsgEvent
    \/ NewRun

SpecReimport == Init /\ [][NextReimport]_vars

\* The importer writing bug 7 again and again while its list of messages
\* on Launchpad grows or shrinks
NextMessages ==
    \/ \E u \in BugOwners : WriteUser(u, TRUE)
    \/ \E owner \in Range(_user_map), n \in 0..MaxMsgs :
           WriteBugStory(owner, None, "Medium", "todo", {},
                         MkBug(Link7, "b7", TitleMax, n))
    \/ WriteBugTask
    \/ WriteBugStoryEvent
    \/ WriteBugTaskEvent
    \/ \E ok \in BOOLEAN : WriteBugMsgUser(ok)
    \/ WriteBugMsgComment
    \/ WriteBugMsgEvent
    \/ NewRun

SpecMessages == Init /\ [][NextMessages]_vars

\* The importer resolving users whose identity service may be out of
\* reach, at the caller and for the message owners of a bug
NextDiscovery ==
    \/ \E u \in {Bob} : \E ok \in BOOLEAN : WriteUser(u, ok)
    \/ \E owner \in Range(_user_map) :
           WriteBugStory(owner, None, "Medium", "todo", {},
                         MkBug(Link12, "b12", 1, MaxMsgs + 1))
    \/ WriteBugTask
    \/ WriteBugStoryEvent
    \/ WriteBugTaskEvent
    \/ \E ok \in BOOLEAN : WriteBugMsgUser(ok)
    \/ WriteBugMsgComment
    \/ WriteBugMsgEvent
    \/ NewRun

SpecDiscovery == Init /\ [][NextDiscovery]_vars

(* ------------------- TimeLineEvent.resolve_event_values ---------------- *)
\* the event types _resolve_info dispatches on (wmodels.py 248-272)
DispatchedTypes ==
    {STORY_CREATED, "story_details_changed", USER_COMMENT, TASK_CREATED,
     "task_status_changed", "task_priority_changed",
     "task_assignee_changed", "task_details_changed", "task_deleted"}
\* event types it does not know
OtherTypes == {"tags_added", ""}

\* event_resolvers.<event_type>(event): the event with its event_info
\* made readable
event_resolver(event) == [event EXCEPT !.event_info = <<"resolved", @>>]

\* comments_api.comment_get(comment_id), as Comment.from_db_model gives it
comment_get(comment_id) == comments[comment_id]

\* TimeLineEvent._resolve_info(event): an if/elif chain over the nine
\* types, each branch returning its resolver's result; there is no else,
\* so for any other type the function ends without a return statement
\* and the call yields None
_resolve_info(event) ==
    IF event.event_type \in DispatchedTypes THEN event_resolver(event)
    ELSE None

\* TimeLineEvent.resolve_event_values(event)
resolve_event_values(event) ==
    LET e == IF event.comment_id # None
             THEN [event EXCEPT !.comment = comment_get(event.comment_id)]
             ELSE event
    IN  _resolve_info(e)

\* the events the API layer may be asked to resolve
ApiEvents ==
    [event_type : DispatchedTypes \cup OtherTypes, event_info : {None},
     story_id : {7, 12}, author_id : {1, 2}, comment_id : {None, 1},
     comment : {None}]

\* the API layer resolves the event of the request
Resolve ==
    /\ api.at = "request"
    /\ api' = [at |-> "response", event |-> api.event,
               ret |-> resolve_event_values(api.event)]
    /\ UNCHANGED <<store, caches, tally, pc, frame, runs, calls, last, hist,
                   caller>>

\* a store that holds a Comment, and a request for one event
InitResolve ==
    /\ project = project_get_by_name(ProjectName)
    /\ stories = <<>>
    /\ tasks = <<>>
    /\ events = <<>>
    /\ comments = <<[id |-> 1, content |-> <<"b7", 1>>,
                     created_at |-> strftime(2015)]>>
    /\ tags = <<>>
    /\ users = <<>>
    /\ _openid_map = <<>>
    /\ _user_map = <<>>
    /\ _tag_map = <<>>
    /\ pc = "idle"
    /\ frame = NoFrame
    /\ runs = 1
    /\ calls = 0
    /\ last = NoCall
    /\ hist = [id \in Ids |-> [first |-> NoBug, same |-> TRUE, done |-> 0,
                                killed |-> FALSE]]
    /\ tag_made = <<>>
    /\ tag_seen = <<>>
    /\ discovered = <<>>
    /\ caller = NoCaller
    /\ api \in {[at |-> "request", event |-> e] : e \in ApiEvents}

NextResolve == Resolve

SpecResolve == InitResolve /\ [][NextResolve]_vars

\* the project names the operator may start the importer with
ProjectNames == {ProjectName, "nowhere"}

\* The importer started for a project that exists or for one that does not
NextConstruct ==
    \/ \E name \in ProjectNames : Construct(name)
    \/ \E u \in BugOwners : WriteUser(u, TRUE)
    \/ \E n \in {"bug"} : BuildTag(n)
    \/ \E owner \in Range(_user_map), n \in 0..MaxMsgs :
           WriteBugStory(owner, None, "Medium", "todo", Range(_tag_map),
                         MkBug(Link7, "b7", TitleMax, n))
    \/ WriteBugTask
    \/ WriteBugStoryEvent
    \/ WriteBugTaskEvent
    \/ \E ok \in BOOLEAN : WriteBugMsgUser(ok)
    \/ WriteBugMsgComment
    \/ WriteBugMsgEvent

SpecConstruct == Init /\ [][NextConstruct]_vars

\* The importer resolving tags, over several runs
NextTags ==
    \/ \E n \in TagNames : BuildTag(n)
    \/ \E l \in TagLists : WriteTags(l)
    \/ NewRun

SpecTags == Init /\ [][NextTags]_vars

\* The importer resolving users, over several runs
NextUsers ==
    \/ \E u \in LPUsers : \E ok \in BOOLEAN : WriteUser(u, ok)
    \/ NewRun

SpecUsers == Init /\ [][NextUsers]_vars

(* ------------------------------ properties ---------------------------- *)
StoriesOf(table, id) == {k \in 1..Len(table) : table[k].id = id}
TasksOf(table, id) == {k \in 1..Len(table) : table[k].story_id = id}
EventsOf(table, id, type) ==
    {k \in 1..Len(table) : table[k].story_id = id /\ table[k].event_type = type}
\* the USER_COMMENT events of a story, in table order
CommentEvents(table, id) ==
    SelectSeq(table,
              LAMBDA r : r.story_id = id /\ r.event_type = USER_COMMENT)
\* write_bug has returned the Story `id' and nothing was called since
Completed(id) == pc = "idle" /\ last.op = "write_bug" /\ last.ret = id
EndsInDigit(s) == Len(s) > 0 /\ s[Len(s)] \in Digits

\* C1: when write_bug has run to completion twice with the same bug, on a
\* store that held nothing for its id, there is exactly one Story with that
\* id, one Task of that story, one STORY_CREATED and one TASK_CREATED event
\* of that story, and the second call created none of them.
C1_TwiceOneOfEach ==
    \A id \in Ids :
        (Completed(id) /\ hist[id].same /\ hist[id].done >= 2) =>
            /\ Cardinality(StoriesOf(stories, id)) = 1
            /\ Cardinality(TasksOf(tasks, id)) = 1
            /\ Cardinality(EventsOf(events, id, STORY_CREATED)) = 1
            /\ Cardinality(EventsOf(events, id, TASK_CREATED)) = 1
            /\ Len(stories) = Len(last.st0)
            /\ Len(tasks) = Len(last.tk0)
            /\ \A type \in {STORY_CREATED, TASK_CREATED} :
                   EventsOf(events, id, type) = EventsOf(last.ev0, id, type)

C1_Witness ==
    /\ Completed(7)
    /\ hist[7].same
    /\ hist[7].done >= 2
    /\ Len(last.bug.messages) >= 1

\* C2: when write_bug returns for a bug with N messages whose story had M
\* <= N USER_COMMENT events, made from messages 0..M-1, at the start of the
\* call, the call has created exactly N-M Comments and N-M USER_COMMENT
\* events, the k-th new event is of this story and references the k-th new
\* Comment, whose content is message M+k-1, and the rows that were there
\* are unchanged, the story having N USER_COMMENT events in all.
C2_CommentResume ==
    \A id \in Ids :
        LET M == last.M0
            N == Len(last.bug.messages)
            c0 == Len(last.cm0)
            e0 == Len(last.ev0)
            before == CommentEvents(last.ev0, id)
            new == SelectSeq(SubSeq(events, e0 + 1, Len(events)),
                             LAMBDA r : r.event_type = USER_COMMENT)
        IN  (/\ Completed(id)
             /\ M <= N
             /\ Len(before) = M
             /\ \A k \in 1..M : last.cm0[before[k].comment_id].content
                                    = last.bug.messages[k].content)
            =>
            /\ Len(comments) = c0 + (N - M)
            /\ Len(new) = N - M
            /\ \A k \in 1..(N - M) :
                   /\ comments[c0 + k].content
                          = last.bug.messages[M + k].content
                   /\ new[k].story_id = id
                   /\ new[k].comment_id = c0 + k
            /\ SubSeq(events, 1, e0) = last.ev0
            /\ SubSeq(comments, 1, c0) = last.cm0
            /\ Len(CommentEvents(events, id)) = N

C2_Witness ==
    /\ Completed(7)
    /\ last.M0 = 1
    /\ Len(last.bug.messages) = 2
    /\ Len(comments) = Len(last.cm0) + 1

\* the rows of a story, without the ids the store gave them: its Story and
\* Task rows and its events, a USER_COMMENT event with its Comment's content
View(id) ==
    [stories |-> [k \in 1..Len(SelectSeq(stories, LAMBDA r : r.id = id)) |->
                     LET r == SelectSeq(stories, LAMBDA x : x.id = id)[k]
                     IN  <<r.title, r.description>>],
     tasks |-> [k \in 1..Len(SelectSeq(tasks, LAMBDA r : r.story_id = id)) |->
                   SelectSeq(tasks, LAMBDA x : x.story_id = id)[k].title],
     events |-> [k \in 1..Len(SelectSeq(events, LAMBDA r : r.story_id = id))
                 |-> LET r == SelectSeq(events, LAMBDA x : x.story_id = id)[k]
                     IN  IF r.event_type = USER_COMMENT
                         THEN <<r.event_type, comments[r.comment_id].content>>
                         ELSE <<r.event_type>>]]

\* the rows one uninterrupted write_bug call leaves for a bug
Uninterrupted(bug) ==
    [stories |-> <<
         <<IF Len(bug.title) > 100
           THEN SubSeq(bug.title, 1, 97) \o <<DOT, DOT, DOT>>
           ELSE bug.title,
           IF Len(bug.title) > 100
           THEN bug.title \o <<NL, NL>> \o bug.description
           ELSE bug.description>> >>,
     tasks |-> << IF Len(bug.title) > 100
                  THEN SubSeq(bug.title, 1, 97) \o <<DOT, DOT, DOT>>
                  ELSE bug.title >>,
     events |-> << <<STORY_CREATED>>, <<TASK_CREATED>> >>
                \o [k \in 1..Len(bug.messages) |->
                       <<USER_COMMENT, bug.messages[k].content>>]]

\* C3: when write_bug has returned for a bug that every call for its id was
\* made with, the rows of that id are those of one uninterrupted call (one
\* Story, one Task, one STORY_CREATED event, one TASK_CREATED event, one
\* USER_COMMENT event per message in message order), also when earlier
\* runs were ended between two store operations of write_bug.
C3_ResumeAfterTermination ==
    \A id \in Ids :
        (Completed(id) /\ hist[id].same) => View(id) = Uninterrupted(last.bug)

C3_Witness ==
    /\ Completed(7)
    /\ hist[7].same
    /\ hist[7].killed
    /\ Len(last.bug.messages) = 2
    /\ Len(comments) > Len(CommentEvents(events, 7))

\* C4 (as claimed): once write_bug has returned the Story of the only bug
\* that was ever written, every call having been made with that same bug
\* and whatever runs were ended before, every Comment is referenced by
\* exactly one TimeLineEvent.
C4_EveryCommentHasOneEvent ==
    (\E id \in Ids : /\ Completed(id)
                     /\ hist[id].same
                     /\ \A k \in 1..Len(stories) : stories[k].id = id) =>
        \A c \in 1..Len(comments) :
            Cardinality({k \in 1..Len(events) :
                            /\ events[k].event_type = USER_COMMENT
                            /\ events[k].comment_id = c}) = 1

\* C5 (as claimed): write_bug for a bug whose self_link does not end in a
\* decimal digit returns None and leaves the store as it was; it never gets
\* to the Story.
C5_NoTrailingDigitsSkipped ==
    /\ pc # "idle" => EndsInDigit(frame.bug.self_link)
    /\ (last.op = "write_bug" /\ ~EndsInDigit(last.bug.self_link)) =>
           /\ last.ret = None
           /\ pc = "idle"
           /\ <<stories, tasks, events, comments>>
                  = <<last.st0, last.tk0, last.ev0, last.cm0>>

\* the write_bug call in progress, or the one that has just returned a Story
InCall == pc # "idle" \/ (last.op = "write_bug" /\ last.ret # None)
Call == IF pc # "idle" THEN frame ELSE last
CallId == IF pc # "idle" THEN frame.launchpad_id ELSE last.ret

\* C6: for a bug title of more than 100 characters, the Story title that
\* write_bug stores has exactly 100 characters, the first 97 of the bug
\* title and "...", the stored description is the whole bug title, a blank
\* line and the bug description, and the Task and the TASK_CREATED payload
\* that the call writes carry the same truncated title.
C6_TitleOverflow ==
    (InCall /\ Len(Call.bug.title) > 100) =>
        LET t == Call.bug.title
            cut == [k \in 1..100 |-> IF k <= 97 THEN t[k] ELSE DOT]
        IN  /\ \A k \in StoriesOf(stories, CallId) :
                   /\ Len(stories[k].title) = 100
                   /\ stories[k].title = cut
                   /\ SubSeq(stories[k].description, 1, Len(t)) = t
                   /\ stories[k].description
                          = t \o <<NL, NL>> \o Call.bug.description
            /\ \A k \in (Len(Call.tk0) + 1)..Len(tasks) : tasks[k].title = cut
            /\ \A k \in (Len(Call.ev0) + 1)..Len(events) :
                   events[k].event_type = TASK_CREATED =>
                       events[k].event_info.task_title = cut

C6_Witness ==
    /\ pc = "idle"
    /\ last.op = "write_bug"
    /\ last.ret = 7
    /\ Len(last.bug.title) > 100
    /\ Len(tasks) > Len(last.tk0)
    /\ \E k \in (Len(last.ev0) + 1)..Len(events) :
           events[k].event_type = TASK_CREATED
    /\ StoriesOf(last.st0, 7) # {}

TagCall == last.op \in {"build_tag", "write_tags"}

\* C7: in one run, a build_tag call for a name resolved before in that run
\* returns the Tag the first call returned, without a store lookup and
\* without tag_create, and tag_create is called at most once per name.
C7_TagCache ==
    /\ \A n \in DOMAIN tag_made : tag_made[n] <= 1
    /\ TagCall =>
           \A k \in 1..Len(last.trace) :
               LET e == last.trace[k]
               IN  e.again => /\ e.ret = tag_seen[e.name]
                              /\ ~e.looked
                              /\ ~e.created

C7_Witness ==
    /\ last.op = "write_tags"
    /\ Len(last.trace) = 2
    /\ last.trace[1].created
    /\ last.trace[2].again
    /\ runs = 2

\* C8: over all runs the store has at most one Tag row per name; build_tag
\* returns the Tag of the name, and it calls tag_create only when the store
\* held no Tag of that name.
C8_OneTagPerName ==
    /\ \A j, k \in 1..Len(tags) : tags[j].name = tags[k].name => j = k
    /\ TagCall =>
           \A k \in 1..Len(last.trace) :
               LET e == last.trace[k]
                   was == {j \in 1..Len(last.tags0) :
                              last.tags0[j].name = e.name}
               IN  /\ e.ret \in 1..Len(tags)
                   /\ tags[e.ret].name = e.name
                   /\ was # {} => e.ret \in was /\ ~e.created

C8_Witness ==
    /\ last.op = "build_tag"
    /\ runs = 2
    /\ last.trace[1].looked
    /\ ~last.trace[1].created
    /\ Len(tags) >= 2

\* C9: when identity discovery fails, write_user goes on with the identity
\* "http://example.com/invalid/~" followed by the username, and returns the
\* one User of the store with that identity; the Users that were there stay.
C9_PlaceholderIdentity ==
    (last.op = "write_user" /\ last.discovery = "fail") =>
        /\ last.openid = "http://example.com/invalid/~" \o last.lp_user.name
        /\ last.ret \in 1..Len(users)
        /\ users[last.ret].openid = last.openid
        /\ Cardinality({k \in 1..Len(users) :
                           users[k].openid = last.openid}) = 1
        /\ SubSeq(users, 1, Len(last.users0)) = last.users0

C9_Witness ==
    /\ last.op = "write_user"
    /\ last.discovery = "fail"
    /\ runs = 2
    /\ last.looked
    /\ ~last.created
    /\ last.lp_user = Amy2

\* C10: no two User rows have the same openid, and write_user calls
\* user_create for an identity only when the store held no User with it.
C10_OneUserPerOpenid ==
    /\ \A j, k \in 1..Len(users) : users[j].openid = users[k].openid => j = k
    /\ (last.op = "write_user" /\ last.created) =>
           \A j \in 1..Len(last.users0) : last.users0[j].openid # last.openid

C10_Witness ==
    /\ last.op = "write_user"
    /\ runs = 2
    /\ last.looked
    /\ ~last.created
    /\ last.discovery = "ok"
    /\ Len(users) >= 3

\* the scenario's import has returned the Story
ScenarioDone ==
    /\ pc = "idle"
    /\ caller.at = "bug"
    /\ last.op = "write_bug"
    /\ last.ret = 1057477
\* one Story 1057477 with a title of 100 characters, one Task of it
\* assigned to U2, five events of it (one STORY_CREATED, one TASK_CREATED,
\* three USER_COMMENT), two Tags
ScenarioRows ==
    /\ Len(stories) = 1
    /\ stories[1].id = 1057477
    /\ Len(stories[1].title) = 100
    /\ Len(tasks) = 1
    /\ tasks[1].story_id = 1057477
    /\ tasks[1].assignee_id = caller.assignee
    /\ users[caller.assignee].username = caller.U2.name
    /\ Len(events) = 5
    /\ \A k \in 1..Len(events) : events[k].story_id = 1057477
    /\ Cardinality(EventsOf(events, 1057477, STORY_CREATED)) = 1
    /\ Cardinality(EventsOf(events, 1057477, TASK_CREATED)) = 1
    /\ Cardinality(EventsOf(events, 1057477, USER_COMMENT)) = 3
    /\ Len(tags) = 2

\* C11 (as claimed): the end-to-end import leaves one Story 1057477 with a
\* 100-character title, one Task of it assigned to U2, its five events,
\* two Tags, and two Users (one if U1 and U2 are the same user), whoever
\* the owners of the three messages are.
C11_EndToEndTwoUsers ==
    ScenarioDone =>
        /\ ScenarioRows
        /\ Len(users) = IF caller.U1 = caller.U2 THEN 1 ELSE 2

\* C11 (amended): the end-to-end import leaves one Story 1057477 with a
\* 100-character title, one Task of it assigned to U2, its five events,
\* two Tags, and one User per distinct identity (discovered, or the
\* placeholder after a failed discovery) among U1, U2 and the owners of the
\* three messages: that is two Users (one if U1 and U2 have the same
\* identity) when every message owner is U1 or U2, and more otherwise.
C11_EndToEnd ==
    ScenarioDone =>
        LET people == {caller.U1, caller.U2}
                      \cup {last.bug.messages[k].owner : k \in 1..3}
            identities == {_openid_map[u.web_link] : u \in people}
        IN  /\ ScenarioRows
            /\ Len(users) = Cardinality(identities)
            /\ {users[k].openid : k \in 1..Len(users)} = identities
            /\ people = {caller.U1, caller.U2} =>
                   Len(users) = IF caller.owner = caller.assignee THEN 1
                                ELSE 2
            /\ Len(users) >= Cardinality({caller.owner, caller.assignee})

C11_Witness ==
    /\ ScenarioDone
    /\ caller.U1 = Amy
    /\ caller.U2 = Bob
    /\ last.bug.messages[2].owner = Carl
    /\ Len(users) = 3

\* C12: a LaunchpadWriter constructed for a project name that has no
\* Project ends the process at once with exit status 1: the store is as the
\* construction found it, nothing was discovered, looked up or cached, and
\* no write_bug call is in progress or follows; a write_bug call only ever
\* runs on a writer that has its project.
C12_MissingProjectExits ==
    /\ project = None =>
           /\ pc = "exit"
           /\ last.op = "exit"
           /\ last.status = 1
           /\ <<stories, tasks, events, comments, tags, users>> = last.store0
           /\ _openid_map = <<>> /\ _user_map = <<>> /\ _tag_map = <<>>
           /\ discovered = <<>> /\ tag_seen = <<>> /\ tag_made = <<>>
           /\ frame = NoFrame
    /\ pc = "exit" => project = None
    /\ \A k \in 1..Len(tasks) : tasks[k].project_id # None

C12_Witness ==
    /\ pc = "exit"
    /\ project = None
    /\ runs = 2
    /\ hist[7].killed
    /\ Len(tasks) = 1
    /\ Len(tags) = 1

\* C13: write_user(None) returns None without identity discovery, store
\* query or user_create, and leaves the store and the writer's maps as they
\* were; a Task that write_bug creates when the assignee passed to it is
\* None has assignee_id None.
C13_NonePassesThrough ==
    /\ [][(last'.op = "write_user" /\ last'.lp_user = NoneUser) =>
              /\ last'.ret = None
              /\ last'.discovery = "none"
              /\ ~last'.looked
              /\ ~last'.created
              /\ UNCHANGED <<store, caches, tally>>]_vars
    /\ [](InCall /\ Call.assignee = None =>
              \A k \in (Len(Call.tk0) + 1)..Len(tasks) :
                  tasks[k].assignee_id = None)

C13_Witness ==
    /\ pc = "story_event"
    /\ frame.assignee = None
    /\ Len(tasks) = Len(frame.tk0) + 1
    /\ tasks[Len(tasks)].assignee_id = None
    /\ _user_map # <<>>
    /\ Len(users) = 1

\* C14: when write_bug is called for a bug id whose Story exists, the
\* number of Story rows stays, and the Story row of that id, in its place
\* and with its id, carries the title and description normalised from the
\* bug, the owner passed as creator, the tags passed and the bug's two
\* timestamps; the other Story rows are as they were.
C14_StoryUpdatedInPlace ==
    \A id \in Ids :
        (InCall /\ CallId = id /\ StoriesOf(Call.st0, id) # {}) =>
            LET t == Call.bug.title
                long == Len(t) > 100
            IN  /\ Len(stories) = Len(Call.st0)
                /\ \A k \in 1..Len(stories) :
                       IF Call.st0[k].id # id THEN stories[k] = Call.st0[k]
                       ELSE /\ stories[k].id = id
                            /\ stories[k].title
                                   = IF long
                                     THEN [j \in 1..100 |->
                                              IF j <= 97 THEN t[j] ELSE DOT]
                                     ELSE t
                            /\ stories[k].description
                                   = IF long
                                     THEN t \o <<NL, NL>>
                                            \o Call.bug.description
                                     ELSE Call.bug.description
                            /\ stories[k].creator = Call.owner
                            /\ stories[k].tags = Call.tags
                            /\ stories[k].created_at[2]
                                   = Call.bug.date_created
                            /\ stories[k].updated_at[2]
                                   = Call.bug.date_last_updated

C14_Witness ==
    /\ Completed(7)
    /\ Len(stories) = 1
    /\ Len(last.st0) = 1
    /\ last.st0[1].title # stories[1].title
    /\ last.st0[1].description # stories[1].description
    /\ last.st0[1].tags # stories[1].tags
    /\ last.st0[1].created_at # stories[1].created_at
    /\ last.st0[1].updated_at # stories[1].updated_at

\* C15 (as claimed): in every state, also after re-imports of an edited
\* bug and after runs ended between two store operations, a TASK_CREATED
\* event of a story carries in its payload the id of that story's Task and
\* the title stored on that Task.
C15_TaskCreatedPayload ==
    \A k \in 1..Len(events) :
        events[k].event_type = TASK_CREATED =>
            /\ TasksOf(tasks, events[k].story_id) # {}
            /\ \A j \in TasksOf(tasks, events[k].story_id) :
                   /\ events[k].event_info.task_id = tasks[j].id
                   /\ events[k].event_info.task_title = tasks[j].title

\* C16 (as claimed): resolve_event_values applied to an event whose type is
\* none of the nine dispatched types returns that event, with its
\* event_info as it was; it does not return None.
C16_UnknownTypeReturnsEvent ==
    (api.at = "response" /\ api.event.event_type \notin DispatchedTypes) =>
        /\ api.ret # None
        /\ api.ret = IF api.event.comment_id # None
                     THEN [api.event EXCEPT
                              !.comment = comments[api.event.comment_id]]
                     ELSE api.event

\* C17 (as claimed): for an external user (a username and profile link;
\* here one whose username no other external user has), the write_user
\* calls of all runs create at most one User row, whether discovery
\* succeeded or failed in each run.
C17_OneUserPerExternalUser ==
    \A u \in LPUsers \ {NoneUser} :
        (\A v \in LPUsers : v.name = u.name => v = u) =>
            Cardinality({k \in 1..Len(users) :
                            users[k].username = u.name}) <= 1

\* C18: in one LaunchpadWriter instance identity discovery is attempted at
\* most once per profile link, by the caller's write_user calls and those
\* for message owners alike: its result, the local id or the placeholder
\* of a failure, is kept under the link, and no later step of that run
\* discovers the link again or changes what is kept.
C18_DiscoveryOncePerLink ==
    /\ [](/\ \A l \in DOMAIN discovered : discovered[l] <= 1
          /\ DOMAIN _openid_map = DOMAIN discovered)
    /\ [][runs' = runs =>
              \A l \in DOMAIN _openid_map :
                  /\ l \in DOMAIN _openid_map'
                  /\ _openid_map'[l] = _openid_map[l]
                  /\ discovered'[l] = discovered[l]]_vars

\* the third message's owner, whose discovery for the first message failed,
\* has been resolved again
C18_Witness ==
    /\ pc = "msg_comment"
    /\ frame.i = 2
    /\ _openid_map[Amy.web_link] = "http://example.com/invalid/~amy"
    /\ _openid_map[Bob.web_link] = "http://example.com/invalid/~bob"
    /\ discovered[Amy.web_link] = 1
    /\ discovered[Bob.web_link] = 1
    /\ runs = 2

\* C19: when a Task of the bug's story exists, write_bug creates no Task
\* and leaves the Task rows as they were, whatever title, assignee,
\* priority and status this call was given.
C19_ExistingTaskUntouched ==
    \A id \in Ids :
        (InCall /\ CallId = id /\ TasksOf(Call.tk0, id) # {}) =>
            tasks = Call.tk0

C19_Witness ==
    /\ Completed(7)
    /\ Len(last.tk0) = 1
    /\ tasks[1].story_id = 7
    /\ tasks[1].title # NormTitle(last.bug.title)
    /\ tasks[1].priority # last.priority
    /\ tasks[1].status # last.status
    /\ tasks[1].assignee_id # last.assignee
    /\ tasks[1].updated_at # strftime(last.bug.date_last_updated)

\* C20: the number of USER_COMMENT events of a story never decreases, and
\* when write_bug returns for a bug with N messages whose story had M such
\* events when the call began, the story has max(M, N) of them: with N < M
\* the events and Comments are as they were, with N >= M there are as many
\* as the bug has messages.
C20_CommentCountMax ==
    /\ [][\A id \in Ids :
              Len(CommentEvents(events', id))
                  >= Len(CommentEvents(events, id))]_vars
    /\ [](\A id \in Ids :
              Completed(id) =>
                  LET M == Len(CommentEvents(last.ev0, id))
                      N == Len(last.bug.messages)
                      now == Len(CommentEvents(events, id))
                  IN  /\ now = IF M > N THEN M ELSE N
                      /\ N < M => /\ CommentEvents(events, id)
                                       = CommentEvents(last.ev0, id)
                                  /\ comments = last.cm0
                      /\ N >= M => now = N)

C20_Witness ==
    /\ Completed(7)
    /\ Len(CommentEvents(last.ev0, 7)) = 2
    /\ Len(last.bug.messages) = 1
    /\ Len(CommentEvents(events, 7)) = 2
    /\ Len(comments) = 2

\* C21: in every state, those left by a run ended between two store
\* operations included, the rows of a Launchpad id are a prefix of the
\* order write_bug writes them in: a Task only with the Story, a
\* STORY_CREATED event only with the Task, a TASK_CREATED event only with
\* the STORY_CREATED event, a USER_COMMENT event only with the TASK_CREATED
\* event.
C21_PrefixOfWriteOrder ==
    \A id \in Ids :
        /\ TasksOf(tasks, id) # {} => StoriesOf(stories, id) # {}
        /\ EventsOf(events, id, STORY_CREATED) # {} => TasksOf(tasks, id) # {}
        /\ EventsOf(events, id, TASK_CREATED) # {} =>
               EventsOf(events, id, STORY_CREATED) # {}
        /\ EventsOf(events, id, USER_COMMENT) # {} =>
               EventsOf(events, id, TASK_CREATED) # {}

\* a run was ended after the Task of bug 7 and before its STORY_CREATED
\* event, and the next run has got as far as the Story of bug 12
C21_Witness ==
    /\ runs = 2
    /\ hist[7].killed
    /\ TasksOf(tasks, 7) # {}
    /\ EventsOf(events, 7, STORY_CREATED) = {}
    /\ pc = "task"
    /\ frame.launchpad_id = 12
    /\ TasksOf(tasks, 12) = {}

====
